---- MODULE Spec2Model ----
(***************************************************************************)
(* Model of src/chatbot.py: a FastAPI service that ingests one PDF into an *)
(* in-memory corpus (chunks, embeddings, FAISS index) and answers          *)
(* questions by nearest-neighbour retrieval plus a call to a completion    *)
(* service.                                                                *)
(*                                                                         *)
(* Scheduling.  Every handler is an `async def` run on the single asyncio  *)
(* event loop of the uvicorn process (chatbot.py:257-260).  A coroutine is *)
(* suspended only at an `await`; the only `await` in the program is        *)
(* `await file.read()` at chatbot.py:196.  Every other call (PyPDF2, the   *)
(* sentence transformer, faiss, requests.post) is synchronous and blocks   *)
(* the loop, so the code between two suspension points is one atomic step. *)
(*                                                                         *)
(* Strings are sequences of one-character strings; " " is whitespace.      *)
(* Python's None is the empty tuple and a present value v is <<v>>.        *)
(***************************************************************************)
EXTENDS Integers, Sequences, FiniteSets, TLC

\* ------------------------------------------------------------------ bounds
\* Longest extracted document text an upload may carry.
MaxTextLen == 5
\* Stand-in for the default chunk_size=500 of split_text (chatbot.py:74),
\* scaled down so that documents of MaxTextLen characters span several chunks.
DefaultChunkSize == 1
\* Successful uploads in one run (caps the generation counter).
MaxUploads == 2
\* Largest top_k handed to search_similar when it is driven directly.
MaxK == 4
\* Longest text and largest chunk size given to split_text when it is driven directly.
MaxSplitLen == 5
MaxSplitChunk == 3

\* ------------------------------------------------------- program constants
\* top_k=3 (chatbot.py:99, chatbot.py:238)
TopK == 3

\* ------------------------------------------------------------ Python values
None == <<>>
Some(v) == <<v>>
Min(a, b) == IF a < b THEN a ELSE b

\* seq[lo:hi] for 0 <= lo, hi: the end is clamped to len(seq).
PySlice(seq, lo, hi) == SubSeq(seq, lo + 1, Min(hi, Len(seq)))

\* seq[i] for -len(seq) <= i < len(seq): a negative i counts from the end.
PyIndex(seq, i) == IF i >= 0 THEN seq[i + 1] ELSE seq[Len(seq) + i + 1]

\* The 0-based position seq[i] reads.
PyPosition(seq, i) == IF i >= 0 THEN i ELSE Len(seq) + i

\* Length of the run of non-whitespace characters at the head of s (s[1] # " ").
WordLen(s) ==
    CHOOSE n \in 1..Len(s) :
        /\ \A i \in 1..n : s[i] # " "
        /\ (n = Len(s) \/ s[n + 1] = " ")

\* str.split() with no separator: runs of whitespace separate the words,
\* leading and trailing whitespace give no empty word.
RECURSIVE str_split(_)
str_split(s) ==
    IF s = <<>> THEN <<>>
    ELSE IF Head(s) = " " THEN str_split(Tail(s))
    ELSE LET n == WordLen(s)
         IN  <<SubSeq(s, 1, n)>> \o str_split(SubSeq(s, n + 1, Len(s)))

\* " ".join(words)
RECURSIVE str_join(_)
str_join(words) ==
    IF words = <<>> THEN <<>>
    ELSE IF Len(words) = 1 THEN words[1]
    ELSE words[1] \o <<" ">> \o str_join(Tail(words))

\* str.strip(): leading and trailing whitespace removed.
RECURSIVE str_strip(_)
str_strip(s) ==
    IF s = <<>> THEN <<>>
    ELSE IF Head(s) = " " THEN str_strip(Tail(s))
    ELSE IF s[Len(s)] = " " THEN str_strip(SubSeq(s, 1, Len(s) - 1))
    ELSE s

\* The loop of split_text stepping by chunk_size + 1.
RECURSIVE split_loop_skip(_, _, _)
split_loop_skip(words, i, chunk_size) ==
    IF i >= Len(words) THEN <<>>
    ELSE <<str_join(PySlice(words, i, i + chunk_size))>>
         \o split_loop_skip(words, i + chunk_size + 1, chunk_size)

\* The loop of split_text from word i on: for i in range(0, len(words),
\* chunk_size), each chunk " ".join(words[i:i + chunk_size]).
RECURSIVE split_loop(_, _, _)
split_loop(words, i, chunk_size) ==
    IF i >= Len(words) THEN <<>>
    ELSE <<str_join(PySlice(words, i, i + chunk_size))>>
         \o split_loop(words, i + chunk_size, chunk_size)

split_text(text, chunk_size) == split_loop(str_split(text), 0, chunk_size)

\* All strings over the alphabet `chars` of at most n characters.
Strings(chars, n) == UNION {[1..k -> chars] : k \in 0..n}

\* str.lower() on the characters file names are built from.
char_lower(c) ==
    CASE c = "A" -> "a"
      [] c = "P" -> "p"
      [] c = "D" -> "d"
      [] c = "F" -> "f"
      [] OTHER -> c

str_lower(s) == [i \in 1..Len(s) |-> char_lower(s[i])]

\* s.endswith(suffix)
str_endswith(s, suffix) ==
    /\ Len(s) >= Len(suffix)
    /\ SubSeq(s, Len(s) - Len(suffix) + 1, Len(s)) = suffix

\* `not file.filename.lower().endswith('.pdf')` (chatbot.py:191)
is_pdf_name(filename) == str_endswith(str_lower(filename), <<".", "p", "d", "f">>)

\* ------------------------------------------------------ embedder and index
Count(s, c) == Cardinality({i \in 1..Len(s) : s[i] = c})

\* model.encode of one text: a vector of fixed dimension 2 (letters, blanks).
\* Distinct texts may share a vector, as with any embedding.
encode_one(s) == <<Len(s) - Count(s, " "), Count(s, " ")>>

\* model.encode(list): one vector per text, in order.
encode(texts) == [i \in 1..Len(texts) |-> encode_one(texts[i])]

\* get_embedder with the assignment to the global left out.
get_embedder_unshared(emb, load_ok) ==
    IF emb = None /\ ~load_ok
    THEN [raised |-> TRUE, embedder |-> emb]
    ELSE [raised |-> FALSE, embedder |-> emb]

\* get_embedder: the global is loaded on first use; constructing the model
\* may raise (load_ok = FALSE), which leaves the global None.
get_embedder(emb, load_ok) ==
    IF emb = None
    THEN IF load_ok
         THEN [raised |-> FALSE, embedder |-> Some("all-MiniLM-L6-v2")]
         ELSE [raised |-> TRUE, embedder |-> None]
    ELSE [raised |-> FALSE, embedder |-> emb]

create_embeddings(chunks, emb, load_ok, encode_ok) ==
    LET g == get_embedder(emb, load_ok)
    IN  IF g.raised \/ ~encode_ok
        THEN [raised |-> TRUE, embedder |-> g.embedder, embeddings |-> <<>>]
        ELSE [raised |-> FALSE, embedder |-> g.embedder, embeddings |-> encode(chunks)]

\* create_faiss_index adding all vectors but the last.
create_faiss_index_short(embeddings, index_ok) ==
    IF ~index_ok
    THEN [raised |-> TRUE, index |-> <<>>]
    ELSE [raised |-> FALSE, index |-> SubSeq(embeddings, 1, Len(embeddings) - 1)]

\* create_faiss_index: an IndexFlatL2 is the added vectors in order.
create_faiss_index(embeddings, index_ok) ==
    IF ~index_ok
    THEN [raised |-> TRUE, index |-> <<>>]
    ELSE [raised |-> FALSE, index |-> embeddings]

\* Squared Euclidean distance.
RECURSIVE L2(_, _)
L2(u, v) ==
    IF u = <<>> THEN 0
    ELSE (u[1] - v[1]) * (u[1] - v[1]) + L2(Tail(u), Tail(v))

\* IndexFlatL2.search(q, k): the labels of the k nearest vectors by ascending
\* distance (equal distances by ascending label); when the index holds fewer
\* than k vectors the missing slots carry the label -1.
faiss_search(index, q, k) ==
    LET n == Len(index)
        Closer(a, b) ==
            \/ L2(index[a + 1], q) < L2(index[b + 1], q)
            \/ (L2(index[a + 1], q) = L2(index[b + 1], q) /\ a < b)
        Rank(b) == Cardinality({a \in 0..n - 1 : Closer(a, b)})
    IN  [j \in 1..k |->
            IF j <= n THEN CHOOSE b \in 0..n - 1 : Rank(b) = j - 1 ELSE -1]

\* The loop of search_similar (chatbot.py:108-111) over the labels from
\* position j on: Some(<<idx, ...>>) of the labels whose chunk is appended,
\* None when chunks[idx] raises IndexError.
RECURSIVE collect(_, _, _)
collect(labels, j, chunks) ==
    IF j > Len(labels) THEN Some(<<>>)
    ELSE LET idx == labels[j]
             rest == collect(labels, j + 1, chunks)
         IN  IF ~(idx < Len(chunks)) THEN rest
             ELSE IF idx < -Len(chunks) \/ rest = None THEN None
             ELSE Some(<<idx>> \o rest[1])

NoRetrieval ==
    [raised |-> FALSE, results |-> <<>>, positions |-> <<>>, embedder |-> None,
     embed_calls |-> 0, index_gen |-> 0, chunks_gen |-> 0]

\* search_similar calling get_embedder before it looks at the index.
search_similar_eager(store, gens, emb, query, top_k, fault) ==
    LET g == get_embedder(emb, fault # "load")
    IN  IF g.raised \/ fault = "encode"
        THEN [NoRetrieval EXCEPT !.raised = TRUE, !.embedder = g.embedder,
                                 !.embed_calls = 1]
        ELSE IF store.index = None
        THEN [NoRetrieval EXCEPT !.embedder = g.embedder, !.embed_calls = 1]
        ELSE LET labels == faiss_search(store.index[1], encode_one(query), top_k)
                 hits == collect(labels, 1, store.chunks)
             IN  IF hits = None
                 THEN [NoRetrieval EXCEPT !.raised = TRUE, !.embedder = g.embedder,
                                          !.embed_calls = 1,
                                          !.index_gen = gens.index,
                                          !.chunks_gen = gens.chunks]
                 ELSE [raised |-> FALSE,
                       results |-> [i \in 1..Len(hits[1]) |->
                                       PyIndex(store.chunks, hits[1][i])],
                       positions |-> [i \in 1..Len(hits[1]) |->
                                         PyPosition(store.chunks, hits[1][i])],
                       embedder |-> g.embedder,
                       embed_calls |-> 1,
                       index_gen |-> gens.index,
                       chunks_gen |-> gens.chunks]

\* search_similar(query, top_k) on the globals pdf_store (store, with the
\* generation gens of each of its entries) and embedder (emb).  fault names
\* the call that raises, if any.  The result carries the returned chunks,
\* the positions they were read from, the embedder global afterwards, whether
\* the embedder was called, and the generation of the index and of the chunk
\* list that were read.
search_similar(store, gens, emb, query, top_k, fault) ==
    IF store.index = None
    THEN [NoRetrieval EXCEPT !.embedder = emb]
    ELSE LET g == get_embedder(emb, fault # "load")
         IN  IF g.raised \/ fault = "encode"
             THEN [NoRetrieval EXCEPT !.raised = TRUE, !.embedder = g.embedder,
                                      !.embed_calls = 1]
             ELSE LET labels == faiss_search(store.index[1], encode_one(query), top_k)
                      hits == collect(labels, 1, store.chunks)
                  IN  IF hits = None
                      THEN [NoRetrieval EXCEPT !.raised = TRUE,
                                               !.embedder = g.embedder,
                                               !.embed_calls = 1,
                                               !.index_gen = gens.index,
                                               !.chunks_gen = gens.chunks]
                      ELSE [raised |-> FALSE,
                            results |-> [i \in 1..Len(hits[1]) |->
                                            PyIndex(store.chunks, hits[1][i])],
                            positions |-> [i \in 1..Len(hits[1]) |->
                                              PyPosition(store.chunks, hits[1][i])],
                            embedder |-> g.embedder,
                            embed_calls |-> 1,
                            index_gen |-> gens.index,
                            chunks_gen |-> gens.chunks]

\* ------------------------------------------------------ completion gateway
\* What requests.post / raise_for_status / response.json / the subscripts do.
GatewayOutcomes ==
    {"ok", "transport", "timeout", "missing_key", "bad_shape"}

GatewayFailures == GatewayOutcomes \ {"ok"}

ErrorAnswers ==
    {"Error: OPENROUTER_API_KEY not configured", "Error connecting to model",
     "Error parsing response", "Unexpected error"}

\* `not API_KEY`: None and the empty string are falsy.
no_api_key(api_key) == api_key = None \/ api_key = Some("")

\* ask_llm whose try block has only the RequestException handler.
ask_llm_uncaught(api_key, gw) ==
    IF no_api_key(api_key)
    THEN [raised |-> FALSE, llm_calls |-> 0,
          answer |-> "Error: OPENROUTER_API_KEY not configured"]
    ELSE [raised |-> gw \in {"missing_key", "bad_shape"},
          llm_calls |-> 1,
          answer |-> IF gw = "ok" THEN "content" ELSE "Error connecting to model"]

\* ask_llm: every exception of the call is turned into the returned string.
ask_llm(api_key, gw) ==
    IF no_api_key(api_key)
    THEN [raised |-> FALSE, llm_calls |-> 0,
          answer |-> "Error: OPENROUTER_API_KEY not configured"]
    ELSE [raised |-> FALSE,
          llm_calls |-> 1,
          answer |-> CASE gw = "ok" -> "content"
                       [] gw \in {"transport", "timeout"} ->
                            "Error connecting to model"
                       [] gw = "missing_key" -> "Error parsing response"
                       [] OTHER -> "Unexpected error"]

\* ------------------------------------------------------------------- state
VARIABLES
    pdf_store,   \* the global dict: chunks, embeddings (None or <<array>>), index (None or <<index>>)
    generation,  \* for each entry of pdf_store, the number of the upload that assigned it (0: initial)
    embedder,    \* the lazily loaded global: None or <<model>>
    API_KEY,     \* os.getenv("OPENROUTER_API_KEY"), fixed at start-up
    pc,          \* per upload request: "idle", or "reading" (suspended at await file.read())
    last,        \* the response of the request that completed last, with what it observed
    split_in,    \* input of a direct call of split_text: [text, chunk_size]
    split_out    \* its result: None before the call, <<chunks>> after

server_vars == <<pdf_store, generation, embedder, API_KEY, pc, last>>
split_vars == <<split_in, split_out>>
vars == <<pdf_store, generation, embedder, API_KEY, pc, last, split_in, split_out>>

\* The upload requests that may be in flight together.
Uploaders == {"u1", "u2"}

\* Extracted document texts, file names and questions the requests carry.
DocChars == {" ", "a"}
Texts == Strings(DocChars, MaxTextLen)
Filenames ==
    {<<"a", ".", "p", "d", "f">>, <<"A", ".", "P", "D", "F">>,
     <<"a", ".", "t", "x", "t">>, <<"p", "d", "f">>}
Questions == {<<"a">>, <<"a", "a", "a">>}

UploadFaults == {"none", "extract", "load", "encode", "index"}
SearchFaults == {"none", "load", "encode"}

\* The number the next stored corpus gets.
Largest(a, b) == IF a > b THEN a ELSE b
next_generation(gens) == Largest(gens.chunks, Largest(gens.embeddings, gens.index)) + 1

\* A response record with every field at its default.
NoResponse ==
    [op |-> "none", status |-> 0,
     text |-> <<>>, num_chunks |-> 0, total_characters |-> 0, prior_chunks |-> 0,
     answer |-> "", sources_used |-> 0, results |-> <<>>, positions |-> <<>>,
     top_k |-> 0, corpus_size |-> 0, gateway |-> "none",
     embed_calls |-> 0, llm_calls |-> 0, obs_loaded |-> FALSE,
     index_gen |-> 0, chunks_gen |-> 0,
     model_loaded |-> FALSE, pdf_loaded |-> FALSE, chunks_count |-> 0]

\* ------------------------------------------------------------------ upload
\* The three assignments with a suspension after the first: only the index
\* of the new upload is in place.
store_corpus_torn(store, gens, chunks, embeddings, index, g) ==
    [store |-> [store EXCEPT !.index = Some(index)],
     generation |-> [gens EXCEPT !.index = g]]

\* The three assignments extending the stored corpus instead of replacing it.
store_corpus_merge(store, gens, chunks, embeddings, index, g) ==
    [store |-> [chunks |-> store.chunks \o chunks,
                embeddings |-> Some((IF store.embeddings = None THEN <<>>
                                     ELSE store.embeddings[1]) \o embeddings),
                index |-> Some((IF store.index = None THEN <<>>
                                ELSE store.index[1]) \o index)],
     generation |-> [chunks |-> g, embeddings |-> g, index |-> g]]

\* pdf_store["chunks"] = chunks; pdf_store["embeddings"] = embeddings;
\* pdf_store["index"] = index (chatbot.py:210-212), by upload number g.
store_corpus(store, gens, chunks, embeddings, index, g) ==
    [store |-> [chunks |-> chunks, embeddings |-> Some(embeddings), index |-> Some(index)],
     generation |-> [chunks |-> g, embeddings |-> g, index |-> g]]

\* upload_pdf from `text = extract_text_from_pdf(pdf_file)` on, storing the
\* chunks as soon as they are split.
upload_pdf_resume_early(store, gens, emb, g, text, fault) ==
    LET keep(status, st, gn, e) ==
            [status |-> status, store |-> st, generation |-> gn, embedder |-> e,
             num_chunks |-> 0, total_characters |-> 0]
    IN  IF fault = "extract" THEN keep(500, store, gens, emb)
        ELSE IF str_strip(text) = <<>> THEN keep(400, store, gens, emb)
        ELSE LET chunks == split_text(text, DefaultChunkSize)
                 st == [store EXCEPT !.chunks = chunks]
                 gn == [gens EXCEPT !.chunks = g]
                 ce == create_embeddings(chunks, emb, fault # "load", fault # "encode")
             IN  IF ce.raised THEN keep(500, st, gn, ce.embedder)
                 ELSE LET ix == create_faiss_index(ce.embeddings, fault # "index")
                      IN  IF ix.raised THEN keep(500, st, gn, ce.embedder)
                          ELSE LET c == store_corpus(store, gens, chunks,
                                                     ce.embeddings, ix.index, g)
                               IN  [status |-> 200, store |-> c.store,
                                    generation |-> c.generation,
                                    embedder |-> ce.embedder,
                                    num_chunks |-> Len(chunks),
                                    total_characters |-> Len(text)]

\* upload_pdf from `text = extract_text_from_pdf(pdf_file)` on (chatbot.py:
\* 199-226), as upload number g, on the extracted text; fault names the call
\* that raises, if any.  The result is the response and the globals afterwards.
upload_pdf_resume(store, gens, emb, g, text, fault) ==
    LET keep(status, e) ==
            [status |-> status, store |-> store, generation |-> gens, embedder |-> e,
             num_chunks |-> 0, total_characters |-> 0]
    IN  IF fault = "extract" THEN keep(500, emb)
        ELSE IF str_strip(text) = <<>> THEN keep(400, emb)
        ELSE LET chunks == split_text(text, DefaultChunkSize)
                 ce == create_embeddings(chunks, emb, fault # "load", fault # "encode")
             IN  IF ce.raised THEN keep(500, ce.embedder)
                 ELSE LET ix == create_faiss_index(ce.embeddings, fault # "index")
                      IN  IF ix.raised THEN keep(500, ce.embedder)
                          ELSE LET c == store_corpus(store, gens, chunks,
                                                     ce.embeddings, ix.index, g)
                               IN  [status |-> 200, store |-> c.store,
                                    generation |-> c.generation,
                                    embedder |-> ce.embedder,
                                    num_chunks |-> Len(chunks),
                                    total_characters |-> Len(text)]

\* ---------------------------------------------------------------- question
\* ask_question without the check that an index is loaded.
ask_question_unguarded(store, gens, emb, api_key, query, fault, gw) ==
    LET base == [NoResponse EXCEPT !.op = "ask", !.top_k = TopK,
                                   !.corpus_size = Len(store.chunks),
                                   !.obs_loaded = store.index # None]
        r == search_similar(store, gens, emb, query, TopK, fault)
        seen == [base EXCEPT !.embed_calls = r.embed_calls,
                             !.index_gen = r.index_gen,
                             !.chunks_gen = r.chunks_gen]
    IN  IF r.raised
        THEN [response |-> [seen EXCEPT !.status = 500], embedder |-> r.embedder]
        ELSE IF r.results = <<>>
        THEN [response |-> [seen EXCEPT !.status = 404], embedder |-> r.embedder]
        ELSE LET a == ask_llm(api_key, gw)
                 called == [seen EXCEPT !.results = r.results,
                                        !.positions = r.positions,
                                        !.llm_calls = a.llm_calls,
                                        !.gateway = IF no_api_key(api_key)
                                                    THEN "no_credential" ELSE gw]
             IN  IF a.raised
                 THEN [response |-> [called EXCEPT !.status = 500],
                       embedder |-> r.embedder]
                 ELSE [response |-> [called EXCEPT !.status = 200,
                                                   !.answer = a.answer,
                                                   !.sources_used = Len(r.results)],
                       embedder |-> r.embedder]

\* ask_question (chatbot.py:229-254) on the question `query`; fault names the
\* call of the retrieval that raises, if any, and gw is what the completion
\* service does.  The result is the response and the embedder global afterwards.
ask_question(store, gens, emb, api_key, query, fault, gw) ==
    LET base == [NoResponse EXCEPT !.op = "ask", !.top_k = TopK,
                                   !.corpus_size = Len(store.chunks),
                                   !.obs_loaded = store.index # None]
    IN  IF store.index = None
        THEN [response |-> [base EXCEPT !.status = 400], embedder |-> emb]
        ELSE LET r == search_similar(store, gens, emb, query, TopK, fault)
                 seen == [base EXCEPT !.embed_calls = r.embed_calls,
                                      !.index_gen = r.index_gen,
                                      !.chunks_gen = r.chunks_gen]
             IN  IF r.raised
                 THEN [response |-> [seen EXCEPT !.status = 500],
                       embedder |-> r.embedder]
                 ELSE IF r.results = <<>>
                 THEN [response |-> [seen EXCEPT !.status = 404],
                       embedder |-> r.embedder]
                 ELSE LET a == ask_llm(api_key, gw)
                          called == [seen EXCEPT !.results = r.results,
                                                 !.positions = r.positions,
                                                 !.llm_calls = a.llm_calls,
                                                 !.gateway = IF no_api_key(api_key)
                                                             THEN "no_credential"
                                                             ELSE gw]
                      IN  IF a.raised
                          THEN [response |-> [called EXCEPT !.status = 500],
                                embedder |-> r.embedder]
                          ELSE [response |-> [called EXCEPT
                                                  !.status = 200,
                                                  !.answer = a.answer,
                                                  !.sources_used = Len(r.results)],
                                embedder |-> r.embedder]

\* ------------------------------------------------------------------ status
\* The body of health_check (chatbot.py:179-185); root reports the same two flags.
health_check(store, emb) ==
    [NoResponse EXCEPT !.op = "health", !.status = 200,
                       !.model_loaded = emb # None,
                       !.pdf_loaded = store.index # None,
                       !.chunks_count = IF store.chunks # <<>>
                                        THEN Len(store.chunks) ELSE 0]

root(store, emb) ==
    [NoResponse EXCEPT !.op = "root", !.status = 200,
                       !.model_loaded = emb # None,
                       !.pdf_loaded = store.index # None]

\* ----------------------------------------------------------------- actions
ServerInit ==
    /\ pdf_store = [chunks |-> <<>>, embeddings |-> None, index |-> None]
    /\ generation = [chunks |-> 0, embeddings |-> 0, index |-> 0]
    /\ embedder = None
    /\ API_KEY \in {None, Some("sk-or-key")}
    /\ pc = [p \in Uploaders |-> "idle"]
    /\ last = NoResponse

Init ==
    /\ ServerInit
    /\ split_in = [text |-> <<>>, chunk_size |-> DefaultChunkSize]
    /\ split_out = None

\* upload_pdf up to its suspension at `await file.read()`: a name that is not
\* a PDF's is refused at once.
UploadStart(p) ==
    /\ pc[p] = "idle"
    /\ next_generation(generation) + Cardinality({q \in Uploaders : pc[q] = "reading"})
           <= MaxUploads
    /\ \E filename \in Filenames :
        IF ~is_pdf_name(filename)
        THEN /\ last' = [NoResponse EXCEPT !.op = "upload", !.status = 400,
                                          !.prior_chunks = Len(pdf_store.chunks)]
             /\ UNCHANGED pc
        ELSE /\ pc' = [pc EXCEPT ![p] = "reading"]
             /\ UNCHANGED last
    /\ UNCHANGED <<pdf_store, generation, embedder, API_KEY, split_in, split_out>>

\* upload_pdf from its resumption to its response.
UploadResume(p) ==
    /\ pc[p] = "reading"
    /\ \E text \in Texts, fault \in UploadFaults :
        \E r \in {upload_pdf_resume(pdf_store, generation, embedder,
                                    next_generation(generation), text, fault)} :
            /\ pdf_store' = r.store
            /\ generation' = r.generation
            /\ embedder' = r.embedder
            /\ last' = [NoResponse EXCEPT
                            !.op = "upload", !.status = r.status,
                            !.text = IF r.status = 200 THEN text ELSE <<>>,
                            !.num_chunks = r.num_chunks,
                            !.total_characters = r.total_characters,
                            !.prior_chunks = Len(pdf_store.chunks)]
    /\ pc' = [pc EXCEPT ![p] = "idle"]
    /\ UNCHANGED <<API_KEY, split_in, split_out>>

\* What the calls of one question do: a retrieval call raises, or the
\* retrieval runs and the completion service answers or fails.
AskScenarios ==
    {<<f, "ok">> : f \in SearchFaults \ {"none"}} \cup {<<"none", gw>> : gw \in GatewayOutcomes}

\* ask_question, which has no suspension point.
Ask ==
    /\ \E query \in Questions, sc \in AskScenarios :
        \E r \in {ask_question(pdf_store, generation, embedder, API_KEY, query,
                               sc[1], sc[2])} :
            /\ last' = r.response
            /\ embedder' = r.embedder
    /\ UNCHANGED <<pdf_store, generation, API_KEY, pc, split_in, split_out>>

Health ==
    /\ last' = health_check(pdf_store, embedder)
    /\ UNCHANGED <<pdf_store, generation, embedder, API_KEY, pc, split_in, split_out>>

Root ==
    /\ last' = root(pdf_store, embedder)
    /\ UNCHANGED <<pdf_store, generation, embedder, API_KEY, pc, split_in, split_out>>

Next ==
    \/ \E p \in Uploaders : UploadStart(p)
    \/ \E p \in Uploaders : UploadResume(p)
    \/ Ask
    \/ Health
    \/ Root

Spec == Init /\ [][Next]_vars

\* search_similar called directly, with any top_k.
Retrieve ==
    /\ \E query \in Questions, k \in 1..MaxK, fault \in SearchFaults :
        \E r \in {search_similar(pdf_store, generation, embedder, query, k, fault)} :
            /\ last' = [NoResponse EXCEPT
                            !.op = "retrieve",
                            !.status = IF r.raised THEN 500 ELSE 200,
                            !.top_k = k,
                            !.corpus_size = Len(pdf_store.chunks),
                            !.obs_loaded = pdf_store.index # None,
                            !.results = r.results,
                            !.positions = r.positions,
                            !.embed_calls = r.embed_calls,
                            !.index_gen = r.index_gen,
                            !.chunks_gen = r.chunks_gen]
            /\ embedder' = r.embedder
    /\ UNCHANGED <<pdf_store, generation, API_KEY, pc, split_in, split_out>>

RetrieverNext == Next \/ Retrieve

SpecRetriever == Init /\ [][RetrieverNext]_vars

\* split_text called directly on any text with any chunk size.
SplitChars == {" ", "a", "b"}

SplitInit ==
    /\ ServerInit
    /\ split_in \in [text : Strings(SplitChars, MaxSplitLen), chunk_size : 1..MaxSplitChunk]
    /\ split_out = None

CallSplit ==
    /\ split_out = None
    /\ split_out' = Some(split_text(split_in.text, split_in.chunk_size))
    /\ UNCHANGED <<server_vars, split_in>>

SplitNext == CallSplit

SpecSplit == SplitInit /\ [][SplitNext]_vars

\* ------------------------------------------------------------------ claims
\* Concatenation of the word lists of the chunks, in chunk order.
RECURSIVE ChunkWords(_)
ChunkWords(chunks) ==
    IF chunks = <<>> THEN <<>>
    ELSE str_split(chunks[1]) \o ChunkWords(Tail(chunks))

\* C5: for every non-empty text and chunk size n, the words of the chunks,
\* concatenated in chunk order, are exactly the words of the text; every chunk
\* but the last has exactly n words and the last has between 1 and n; a text
\* holding at least one word gives at least one chunk.
C5_SplitReconstructs ==
    (split_out # None /\ split_in.text # <<>>) =>
        LET chunks == split_out[1]
            n == split_in.chunk_size
            words == str_split(split_in.text)
        IN  /\ ChunkWords(chunks) = words
            /\ \A j \in 1..Len(chunks) - 1 : Len(str_split(chunks[j])) = n
            /\ chunks # <<>> =>
                   /\ Len(str_split(chunks[Len(chunks)])) >= 1
                   /\ Len(str_split(chunks[Len(chunks)])) <= n
            /\ words # <<>> => chunks # <<>>

\* A text of five characters and three words split with n = 2: one full chunk
\* and a shorter last chunk.
C5_Witness ==
    /\ split_out # None
    /\ split_in.chunk_size = 2
    /\ Len(str_split(split_in.text)) = 3
    /\ Len(split_out[1]) = 2
    /\ Len(str_split(split_out[1][2])) = 1

\* C1: every step of an upload other than its successful completion (its
\* start, its refusal for a name that is not a PDF's, its failure on blank
\* text or on a raising extraction, embedding or index construction) leaves
\* chunks, embeddings and index of pdf_store, and the generation of each,
\* exactly as they were; so an upload that fails has changed nothing.
C1_FailedUploadKeepsCorpus ==
    [][LET completes == \E p \in Uploaders : pc[p] = "reading" /\ pc'[p] = "idle"
           upload_step == pc' # pc \/ (last'.op = "upload" /\ last' # last)
       IN  (upload_step /\ ~(completes /\ last'.status = 200))
               => (pdf_store' = pdf_store /\ generation' = generation)]_vars

\* An upload failed with a server-class error while a corpus was loaded, and
\* the corpus is still there.
C1_Witness ==
    /\ last.op = "upload"
    /\ last.status = 500
    /\ last.prior_chunks = 2
    /\ Len(pdf_store.chunks) = 2
    /\ pdf_store.index # None

\* C2: whatever uploads are in flight, a retrieval reads the index and the
\* chunk list stored by the same upload.
C2_RetrievalSameGeneration ==
    last.op \in {"ask", "retrieve"} => last.index_gen = last.chunks_gen

\* A question was answered from the corpus of the first upload while another
\* upload was suspended in the middle of its handler.
C2_Witness ==
    /\ last.op = "ask"
    /\ last.status = 200
    /\ last.index_gen = 1
    /\ \E p \in Uploaders : pc[p] = "reading"

\* C3: in every state the corpus is consistent: without an index there are no
\* chunks and no embeddings; with one, chunks, embedding vectors and index
\* vectors are equally many, and the vector at each position, stored and
\* indexed, is the embedding of the chunk at that position.
C3_CorpusConsistent ==
    IF pdf_store.index = None
    THEN pdf_store.chunks = <<>> /\ pdf_store.embeddings = None
    ELSE /\ pdf_store.embeddings # None
         /\ Len(pdf_store.embeddings[1]) = Len(pdf_store.chunks)
         /\ Len(pdf_store.index[1]) = Len(pdf_store.chunks)
         /\ \A i \in 1..Len(pdf_store.chunks) :
                /\ pdf_store.embeddings[1][i] = encode_one(pdf_store.chunks[i])
                /\ pdf_store.index[1][i] = pdf_store.embeddings[1][i]

\* A second corpus of several chunks is in place.
C3_Witness ==
    /\ generation.index = 2
    /\ Len(pdf_store.chunks) = 3
    /\ pdf_store.index # None

\* C4: a retrieval with k on a loaded corpus of n chunks returns exactly
\* min(k, n) chunks, read from pairwise distinct positions.
C4_RetrievalLength ==
    (last.op \in {"ask", "retrieve"} /\ last.status = 200) =>
        /\ Len(last.results) = Min(last.top_k, last.corpus_size)
        /\ \A i, j \in 1..Len(last.positions) :
               i # j => last.positions[i] # last.positions[j]

\* C6: a question asked with no corpus loaded is answered 400 without a call
\* of the embedder or of the completion service; the completion service is
\* called only by a question that saw a loaded corpus and retrieved a chunk.
C6_NoCorpusNoCalls ==
    /\ (last.op = "ask" /\ ~last.obs_loaded) =>
           (last.status = 400 /\ last.embed_calls = 0 /\ last.llm_calls = 0)
    /\ last.llm_calls > 0 =>
           (last.op = "ask" /\ last.obs_loaded /\ Len(last.results) >= 1)

\* A question was refused for want of a corpus although a credential is set.
C6_Witness ==
    /\ last.op = "ask"
    /\ ~last.obs_loaded
    /\ last.status = 400
    /\ API_KEY # None

\* C7: when the completion gateway fails (transport failure, timeout, missing
\* credential, malformed response), the question still gets a 200 response
\* whose answer is an error string and whose sources_used is the number of
\* chunks retrieved.
C7_GatewayFailureIsAnswer ==
    (last.op = "ask" /\ last.gateway \in GatewayFailures \cup {"no_credential"}) =>
        /\ last.status = 200
        /\ last.answer \in ErrorAnswers
        /\ last.sources_used = Len(last.results)

\* The upstream response lacked an expected part after two chunks were retrieved.
C7_Witness ==
    /\ last.op = "ask"
    /\ last.gateway = "bad_shape"
    /\ last.corpus_size = 2
    /\ last.sources_used >= 2
    /\ last.answer = "Unexpected error"

\* C8: after a successful upload the stored chunks are the chunks of the
\* uploaded text, in order, embeddings and index hold exactly their vectors,
\* and num_chunks is the stored chunk count.
C8_UploadReplaces ==
    (last.op = "upload" /\ last.status = 200) =>
        LET chunks == split_text(last.text, DefaultChunkSize)
        IN  /\ pdf_store.chunks = chunks
            /\ pdf_store.embeddings = Some(encode(chunks))
            /\ pdf_store.index = Some(encode(chunks))
            /\ last.num_chunks = Len(pdf_store.chunks)
            /\ last.total_characters = Len(last.text)

\* A corpus of two chunks was replaced by a corpus of one chunk.
C8_Witness ==
    /\ last.op = "upload"
    /\ last.status = 200
    /\ last.prior_chunks = 2
    /\ last.num_chunks = 1
    /\ generation.chunks = 2

\* C9: search_similar called while no index is stored returns no chunk, does
\* not call the embedder, and leaves the embedder global and pdf_store as
\* they were.
C9_UnloadedRetrievalIsInert ==
    [][(last'.op = "retrieve" /\ pdf_store.index = None)
           => /\ last'.results = <<>>
              /\ last'.embed_calls = 0
              /\ embedder' = embedder
              /\ pdf_store' = pdf_store]_vars

\* search_similar ran with no index and the embedder is still unloaded.
C9_Witness ==
    /\ last.op = "retrieve"
    /\ ~last.obs_loaded
    /\ last.status = 200
    /\ embedder = None

\* C10: in every state the status report has pdf_loaded only with
\* model_loaded and with chunks_count >= 1, and no step turns pdf_loaded or
\* model_loaded from true to false.
C10_StatusCoherentMonotonic ==
    /\ [](LET h == health_check(pdf_store, embedder)
          IN  /\ h.pdf_loaded => h.model_loaded
              /\ h.pdf_loaded => h.chunks_count >= 1)
    /\ [][/\ health_check(pdf_store, embedder).pdf_loaded
               => health_check(pdf_store', embedder').pdf_loaded
          /\ health_check(pdf_store, embedder).model_loaded
               => health_check(pdf_store', embedder').model_loaded]_vars

\* The status was reported with a corpus loaded, after an upload had failed.
C10_Witness ==
    /\ last.op = "health"
    /\ last.pdf_loaded
    /\ last.model_loaded
    /\ last.chunks_count = 2
    /\ \E p \in Uploaders : pc[p] = "reading"
====
